---- MODULE Spec2Model ----
(***************************************************************************)
(* A model of DataFrameProcessor (src/DataFrameProcessor.py): one owned    *)
(* table, its configuration and derived bounds, and the operations that    *)
(* filter, aggregate, resample, edit and extend the table.                  *)
(*                                                                         *)
(* A table is a record [cols, dtype, rows]: the set of its columns, the    *)
(* dtype of its date column ("int64" for caller data holding YYYYMMDD      *)
(* integers, "datetime64" once normalised, "object" when pandas has lost   *)
(* the datetime dtype) and the sequence of its rows.                       *)
(* A row is a record over the four columns the code gives a role to (date, *)
(* two numeric columns v and w that can serve as target, and the series    *)
(* column g); a column that is not in cols holds the missing value in      *)
(* every row.  A datetime64 date is a day count from 2023-01-01.           *)
(* pandas' row index is not modelled: every operation of the class reads   *)
(* rows by position or by value.                                           *)
(***************************************************************************)
EXTENDS Integers, Sequences, FiniteSets, TLC

\* ------------------------------------------------------------------ bounds

\* Rows of the table the constructor is given.
MaxInit == 1
\* Rows of a table reset_df is given.
MaxRaw == 2
\* Rows of the largest table the model follows: an operation whose result
\* would be longer is not taken.
MaxRows == 3
\* The last day the model follows, counted from 2023-01-01: 2023-02-05, the
\* Sunday that ends the week of the month's end.
MaxDay == 35
\* Blank rows up to which insert_empty_row_at_pos is followed.
MaxBlank == 1
\* Largest sum aggregate and aggregate_by_timespan produce in the model.
MaxVal == 3
\* Longest sequence the injected predict function returns.
MaxPred == 2

\* --------------------------------------------------------- missing values

\* None in a numeric column (NaN) or in a datetime64 column (NaT).
NaN == -1
\* None in the series column (an object column).
NoneStr == "None"

\* ---------------------------------------------------------------- calendar

IsLeap(y) == (y % 4 = 0 /\ y % 100 # 0) \/ y % 400 = 0

DaysInMonth(y, m) ==
  IF m = 2 THEN (IF IsLeap(y) THEN 29 ELSE 28)
  ELSE IF m \in {4, 6, 9, 11} THEN 30 ELSE 31

RECURSIVE DaysBeforeMonth(_, _)
DaysBeforeMonth(y, m) ==
  IF m = 1 THEN 0 ELSE DaysBeforeMonth(y, m - 1) + DaysInMonth(y, m - 1)

\* The years the model's dates lie in, and the day count of a calendar date
\* from the first day of the first of them.
Years == {2023}
FirstYear == CHOOSE y \in Years : \A z \in Years : y <= z

RECURSIVE DaysBeforeYear(_)
DaysBeforeYear(y) ==
  IF y = FirstYear THEN 0
  ELSE DaysBeforeYear(y - 1) + (IF IsLeap(y - 1) THEN 366 ELSE 365)

Ordinal(y, m, d) == DaysBeforeYear(y) + DaysBeforeMonth(y, m) + (d - 1)

YearOf(o) ==
  CHOOSE y \in Years :
    DaysBeforeYear(y) <= o /\ o < DaysBeforeYear(y) + (IF IsLeap(y) THEN 366 ELSE 365)
MonthOf(o) ==
  LET y == YearOf(o) IN
  CHOOSE m \in 1..12 :
    /\ Ordinal(y, m, 1) <= o
    /\ o < Ordinal(y, m, 1) + DaysInMonth(y, m)
DayOf(o) == o - Ordinal(YearOf(o), MonthOf(o), 1) + 1

\* ------------------------------------------------- strings of characters

Digits == <<"0", "1", "2", "3", "4", "5", "6", "7", "8", "9">>
DigitVal(c) == (CHOOSE i \in 1..10 : Digits[i] = c) - 1
IsDigit(c) == \E i \in 1..10 : Digits[i] = c

RECURSIVE IntStr(_)
IntStr(n) == IF n < 10 THEN <<Digits[n + 1]>> ELSE Append(IntStr(n \div 10), Digits[(n % 10) + 1])

\* n written with at least k digits.
RECURSIVE Pad(_, _)
Pad(s, k) == IF Len(s) >= k THEN s ELSE Pad(<<"0">> \o s, k)

RECURSIVE StrInt(_)
StrInt(s) == IF s = <<>> THEN 0 ELSE 10 * StrInt(SubSeq(s, 1, Len(s) - 1)) + DigitVal(s[Len(s)])

NaTStr == <<"N", "a", "T">>
NoneChars == <<"N", "o", "n", "e">>

\* Series.astype(str) of one value of the date column: an integer prints its
\* digits, a datetime64 value prints as YYYY-MM-DD and NaT as "NaT"; None in
\* an object column prints as "None".
AsStr(dtype, x) ==
  IF dtype = "int64" THEN IntStr(x)
  ELSE IF x = NaN THEN (IF dtype = "object" THEN NoneChars ELSE NaTStr)
  ELSE Pad(IntStr(YearOf(x)), 4) \o <<"-">> \o Pad(IntStr(MonthOf(x)), 2)
       \o <<"-">> \o Pad(IntStr(DayOf(x)), 2)

\* Whether pd.to_datetime(s, format='%Y%m%d') accepts the string: "NaT" is
\* read as a missing date whatever the format is.
Parses(s) ==
  \/ s = NaTStr
  \/ /\ Len(s) = 8
     /\ \A i \in 1..8 : IsDigit(s[i])
     /\ StrInt(SubSeq(s, 1, 4)) \in Years
     /\ StrInt(SubSeq(s, 5, 6)) \in 1..12
     /\ StrInt(SubSeq(s, 7, 8)) \in 1..DaysInMonth(StrInt(SubSeq(s, 1, 4)), StrInt(SubSeq(s, 5, 6)))

\* The datetime64 value pd.to_datetime(s, format='%Y%m%d') gives.
ParseDate(s) ==
  IF s = NaTStr THEN NaN
  ELSE Ordinal(StrInt(SubSeq(s, 1, 4)), StrInt(SubSeq(s, 5, 6)), StrInt(SubSeq(s, 7, 8)))

\* ------------------------------------------------------------------ tables

\* The row pandas builds from {col: None for col in columns} (line 45), and
\* the row a reindexed empty frame holds.
BlankRow == [date |-> NaN, v |-> NaN, w |-> NaN, g |-> NoneStr]

Min2(a, b) == IF a <= b THEN a ELSE b
Max2(a, b) == IF a >= b THEN a ELSE b

\* The elements of a finite set of integers in ascending order.
RECURSIVE SortedSeq(_)
SortedSeq(S) ==
  IF S = {} THEN <<>>
  ELSE LET m == CHOOSE x \in S : \A y \in S : x <= y
       IN <<m>> \o SortedSeq(S \ {m})

\* Series.min() / Series.max() of the date column: missing values are
\* skipped, and an all-missing or empty column gives NaT.
DateValues(t) == {t.rows[i].date : i \in 1..Len(t.rows)} \ {NaN}
ColMin(t) == IF DateValues(t) = {} THEN NaN ELSE CHOOSE x \in DateValues(t) : \A y \in DateValues(t) : x <= y
ColMax(t) == IF DateValues(t) = {} THEN NaN ELSE CHOOSE x \in DateValues(t) : \A y \in DateValues(t) : x >= y

\* df[col] = value for a scalar value: every row gets it, and the column is
\* created when the table does not have it.
SetColumn(t, col, value) ==
  [t EXCEPT !.cols = @ \cup {col},
            !.rows = [i \in 1..Len(t.rows) |-> [t.rows[i] EXCEPT ![col] = value]]]

\* Whether pd.to_datetime(df[date].astype(str), format='%Y%m%d') succeeds.
DatesParse(t) == \A i \in 1..Len(t.rows) : Parses(AsStr(t.dtype, t.rows[i].date))

\* The table with its date column replaced by the parsed dates.
to_datetime(t) ==
  [t EXCEPT !.dtype = "datetime64",
            !.rows = [i \in 1..Len(t.rows) |->
                        [t.rows[i] EXCEPT !.date = ParseDate(AsStr(t.dtype, t.rows[i].date))]]]

\* Normalised without lines 26-27 and 39-40: the rows are left unlabelled.
Normalised_unlabelled(t, label, withGraph) == to_datetime(t)

\* Lines 25-27 and 38-40: normalise the dates, then label every row.
Normalised(t, label, withGraph) ==
  IF withGraph THEN SetColumn(to_datetime(t), "g", label) ELSE to_datetime(t)

\* reset_df (lines 37-40): the copy is installed first; a date that does not
\* parse raises from line 38 and leaves the copy, unparsed and unlabelled,
\* as the owned table.
reset_df(t, label, withGraph) ==
  IF DatesParse(t)
  THEN [err |-> "", df |-> Normalised(t, label, withGraph)]
  ELSE [err |-> "ValueError", df |-> t]

\* insert_empty_row_at_pos (lines 45-51): iloc[:pos] and iloc[pos:] are
\* Python slices, which clamp an out-of-range bound and count a negative one
\* from the end.
SliceBound(pos, n) == IF pos < 0 THEN Max2(pos + n, 0) ELSE Min2(pos, n)

\* The dtypes pd.concat (line 46) can give the date column.  The all-None
\* column of the new row does not count while some row has a date; when no
\* row has one, every part is empty or all-missing and the result is the
\* datetime dtype or object, depending on the pandas build.
ConcatDtypes(t) == IF DateValues(t) = {} THEN {t.dtype, "object"} ELSE {t.dtype}

insert_empty_row_at_pos(t, pos, dtype) ==
  LET k == SliceBound(pos, Len(t.rows))
  IN [t EXCEPT !.dtype = dtype,
               !.rows = SubSeq(t.rows, 1, k) \o <<BlankRow>> \o SubSeq(t.rows, k + 1, Len(t.rows))]

\* ----------------------------------------------------------------- filters

\* A filter value: None, "", [] (all three skipped by line 70), a scalar or
\* a non-empty list; s holds the accepted values.
FNone == [kind |-> "None", s |-> {}]
FEmptyStr == [kind |-> "str", s |-> {}]
FEmptyList == [kind |-> "list", s |-> {}]
FScalar(x) == [kind |-> "scalar", s |-> {x}]
FList(S) == [kind |-> "list", s |-> S]

\* val not in [None, "", []]
Constrains(val) == val.kind = "scalar" \/ (val.kind = "list" /\ val.s # {})

\* Lines 68-76.  A constraining entry on a column the table lacks raises
\* KeyError from df[col].
filter_by_specified_columns(t, filters) ==
  IF \E col \in DOMAIN filters : Constrains(filters[col]) /\ col \notin t.cols
  THEN [err |-> "KeyError", data |-> t]
  ELSE LET Keep(row) == \A col \in DOMAIN filters :
                          Constrains(filters[col]) => row[col] \in filters[col].s
       IN [err |-> "", data |-> [t EXCEPT !.rows = SelectSeq(t.rows, Keep)]]

\* Lines 156-164: both bounds closed; a comparison with NaT is false, and
\* comparing the None of an object column with a date raises TypeError.
filter_by_date(t, start_date, end_date) ==
  LET Keep(row) == row.date # NaN /\ row.date >= start_date /\ row.date <= end_date
  IN IF t.dtype = "object" /\ Len(t.rows) > 0
     THEN [err |-> "TypeError", data |-> t]
     ELSE [err |-> "", data |-> [t EXCEPT !.rows = SelectSeq(t.rows, Keep)]]

\* ------------------------------------------------------------- aggregation

\* Sum of column col over the rows r of the table with Pick(r); sum() skips
\* missing values and gives 0 for no value at all.
RECURSIVE SumOver(_, _, _, _)
SumOver(rows, col, Pick(_), i) ==
  IF i > Len(rows) THEN 0
  ELSE (IF Pick(rows[i]) /\ rows[i][col] # NaN THEN rows[i][col] ELSE 0)
       + SumOver(rows, col, Pick, i + 1)

\* One output row of a grouped sum: the key, the sum, and no other column.
SumRow(key, col, sum) == [BlankRow EXCEPT !.date = key, ![col] = sum]

\* aggregate with max() in the place of sum().
aggregate_max(t, target) ==
  IF target \notin t.cols
  THEN [err |-> "KeyError", data |-> t]
  ELSE LET keys == SortedSeq(DateValues(t))
           Top(k) == LET vals == {t.rows[i][target] : i \in {j \in 1..Len(t.rows) : t.rows[j].date = k}}
                     IN CHOOSE x \in vals : \A y \in vals : x >= y
           data == [cols |-> {"date", target}, dtype |-> t.dtype,
                    rows |-> [i \in 1..Len(keys) |-> SumRow(keys[i], target, Top(keys[i]))]]
       IN [err |-> "", data |-> SetColumn(data, "g", target)]

\* Lines 87-92: groupby drops the rows whose key is missing, sorts the keys,
\* and keeps only the key and the summed column; line 92 then labels every
\* row with the target's name, whatever withGraph is.
aggregate(t, target) ==
  IF target \notin t.cols
  THEN [err |-> "KeyError", data |-> t]
  ELSE LET keys == SortedSeq(DateValues(t))
           Sum(k) == LET Pick(r) == r.date = k IN SumOver(t.rows, target, Pick, 1)
           data == [cols |-> {"date", target}, dtype |-> t.dtype,
                    rows |-> [i \in 1..Len(keys) |-> SumRow(keys[i], target, Sum(keys[i]))]]
       IN [err |-> "", data |-> SetColumn(data, "g", target)]

\* Day of the week of a date, Monday = 0; 2023-01-01 is a Sunday.
Weekday(o) == (o + 6) % 7

\* The label pandas' resample gives the bucket of a date: the day itself
\* ("D"), the Sunday that ends its week ("W" is W-SUN, closed and labelled
\* on the right), the last day of its month ("M").
Bucket(gran, o) ==
  IF gran = "D" THEN o
  ELSE IF gran = "W" THEN o + (6 - Weekday(o))
  ELSE Ordinal(YearOf(o), MonthOf(o), DaysInMonth(YearOf(o), MonthOf(o)))

\* The bucket after bucket b.
NextBucket(gran, b) ==
  IF gran = "D" THEN b + 1
  ELSE IF gran = "W" THEN b + 7
  ELSE Bucket("M", b + 1)

\* Every bucket from first to last.
RECURSIVE BucketRange(_, _, _)
BucketRange(gran, first, last) ==
  IF first > last THEN <<>>
  ELSE <<first>> \o BucketRange(gran, NextBucket(gran, first), last)

\* Granularity with the thresholds applied to the inclusive day count.
Granularity_inclusive(days) ==
  IF days + 1 > 365 THEN "M"
  ELSE IF days + 1 > 90 THEN "W"
  ELSE "D"

\* Lines 112-117: the granularity from the day difference of the two dates.
Granularity(days) ==
  IF days > 365 THEN "M"
  ELSE IF days > 90 THEN "W"
  ELSE "D"

\* resample_sum giving a row only to the bins that hold a row.
resample_sum_populated(t, gran, target) ==
  LET bins == SortedSeq({Bucket(gran, d) : d \in DateValues(t)})
      Sum(b) == LET Pick(r) == r.date # NaN /\ Bucket(gran, r.date) = b
                IN SumOver(t.rows, target, Pick, 1)
  IN [cols |-> {"date", target}, dtype |-> t.dtype,
      rows |-> [i \in 1..Len(bins) |-> SumRow(bins[i], target, Sum(bins[i]))]]

\* df.resample(rule, on=date)[target].sum().reset_index(): the bins run from
\* the first to the last dated row, every bin gives a row, and a bin without
\* rows sums to 0.  Rows without a date are in no bin.
resample_sum(t, gran, target) ==
  IF DateValues(t) = {} THEN [cols |-> {"date", target}, dtype |-> t.dtype, rows |-> <<>>]
  ELSE LET bins == BucketRange(gran, Bucket(gran, ColMin(t)), Bucket(gran, ColMax(t)))
           Sum(b) == LET Pick(r) == r.date # NaN /\ Bucket(gran, r.date) = b
                     IN SumOver(t.rows, target, Pick, 1)
       IN [cols |-> {"date", target}, dtype |-> t.dtype,
           rows |-> [i \in 1..Len(bins) |-> SumRow(bins[i], target, Sum(bins[i]))]]

\* Lines 107-119.  start_date and end_date only choose the granularity.
\* resample needs a datetime column (TypeError otherwise); with rows but no
\* dated row the bin edges are NaT, which pandas rejects or bins to nothing
\* (nat_raises).
aggregate_by_timespan(t, target, start_date, end_date, nat_raises) ==
  LET days == end_date - start_date
  IN IF t.dtype = "object"
     THEN [err |-> "TypeError", data |-> t]
     ELSE IF target \notin t.cols
     THEN [err |-> "KeyError", data |-> t]
     ELSE IF Len(t.rows) > 0 /\ DateValues(t) = {} /\ nat_raises
     THEN [err |-> "ValueError", data |-> t]
     ELSE [err |-> "", data |-> SetColumn(resample_sum(t, Granularity(days), target), "g", target)]

\* ---------------------------------------------------------------- forecast

\* DataFrame.head(n) in the place of tail(n).
tail_head(rows, n) == SubSeq(rows, 1, Min2(n, Len(rows)))

\* DataFrame.tail(n) for n >= 0.
tail(rows, n) == SubSeq(rows, Len(rows) - Min2(n, Len(rows)) + 1, Len(rows))

\* Line 142, rows[target] = values for a list of values: a frame without
\* rows takes its length from a non-empty list (the other columns missing);
\* otherwise a list of another length raises ValueError.
AssignList(rows, col, values) ==
  IF Len(rows) = 0 /\ Len(values) > 0
  THEN [err |-> "", rows |-> [i \in 1..Len(values) |-> [BlankRow EXCEPT ![col] = values[i]]]]
  ELSE IF Len(values) # Len(rows)
  THEN [err |-> "ValueError", rows |-> rows]
  ELSE [err |-> "", rows |-> [i \in 1..Len(rows) |-> [rows[i] EXCEPT ![col] = values[i]]]]

\* Line 140: the trailing last_n_rows rows of the series named like the target.
SelectedRows(t, target, last_n_rows) ==
  LET OfTarget(r) == r.g = target IN tail(SelectSeq(t.rows, OfTarget), last_n_rows)

\* Lines 140-145 (withGraph is true); values is what predict returns.
add_prediction(t, target, label, last_n_rows, values) ==
  LET got == AssignList(SelectedRows(t, target, last_n_rows), target, values)
      rows == [i \in 1..Len(got.rows) |-> [got.rows[i] EXCEPT !.g = label]]
  IN IF got.err # ""
     THEN [err |-> got.err, data |-> t]
     ELSE [err |-> "", data |-> [t EXCEPT !.cols = @ \cup {target, "g"}, !.rows = @ \o rows]]

\* ------------------------------------------------------------------ inputs

\* The dates, as the YYYYMMDD integers of caller data: a Tuesday, the
\* Thursday of the same week, and the Monday of the week after the next, all
\* of one month.
RawDates == {20230117, 20230119, 20230130}
RawColumns == <<"date", "v", "w">>

\* The rows of caller data: one per date, with 1 or 2 in column v.
RawRows ==
  {[BlankRow EXCEPT !.date = d, !.v = IF d = 20230119 THEN 2 ELSE 1, !.w = 1] : d \in RawDates}

\* The sequences over S of length at most n.
RECURSIVE SeqsUpTo(_, _)
SeqsUpTo(S, n) ==
  IF n = 0 THEN {<<>>}
  ELSE LET shorter == SeqsUpTo(S, n - 1)
       IN shorter \cup {Append(q, x) : q \in shorter, x \in S}

\* A table of caller data with the given rows.
RawTable(rows) ==
  [cols |-> {RawColumns[i] : i \in 1..Len(RawColumns)}, dtype |-> "int64", rows |-> rows]

\* The tables reset_df is given, and those the constructor is given (MaxInit
\* rows of the first date).
RawTables == {RawTable(q) : q \in SeqsUpTo(RawRows, MaxRaw)}
InitRows == {r \in RawRows : \A q \in RawRows : r.date <= q.date}
InitTables == {RawTable(q) : q \in SeqsUpTo(InitRows, MaxInit) \ SeqsUpTo(InitRows, MaxInit - 1)}

\* exclude_columns_from_filter, as the constructor is given it.
ExcludeColumns == {"date"}

Targets == {"v", "w"}
Labels == {"actual"}
NewLabels == {"pred"}
\* What the injected predict function returns.
Predictions == {[i \in 1..k |-> i] : k \in 0..MaxPred}

\* The dates the date filter is called with: the first and the last.
FilterDates ==
  LET days == {ParseDate(IntStr(d)) : d \in RawDates}
  IN {d \in days : (\A e \in days : d <= e) \/ (\A e \in days : d >= e)}

\* start_date and end_date of aggregate_by_timespan, as day counts.
SpanStarts == {0}
SpanEnds == {90, 91, 365, 366}

NoFilter == [c \in {} |-> FNone]
FilterInputs ==
  << NoFilter,
     "g" :> FScalar("actual"),
     "g" :> FList({"v", "pred"}),
     ("g" :> FEmptyList) @@ ("v" :> FScalar(1)),
     ("g" :> FEmptyStr) @@ ("v" :> FNone) @@ ("w" :> FScalar(1)) >>

\* ------------------------------------------------------------------- state

VARIABLES
  df,              \* self.df
  target,          \* self.target
  label,           \* self.label
  withGraph,       \* self.withGraph
  filter_columns,  \* self.filter_columns
  min_date,        \* self.min_date
  max_date,        \* self.max_date
  call,            \* the call that has just ended: its operation, arguments and outcome
  ret              \* what that call returned to the caller

vars == <<df, target, label, withGraph, filter_columns, min_date, max_date, call, ret>>
config == <<target, label, withGraph, filter_columns>>

\* The value of a call that returns None or raises.
NoRet == [cols |-> {}, dtype |-> "none", rows |-> <<>>]

Call(op) ==
  [op |-> op, inplace |-> FALSE, err |-> "", chained |-> FALSE, pos |-> 0, filters |-> 0,
   start |-> 0, end |-> 0, gran |-> "", label |-> "", n |-> 0, values |-> <<>>]

\* No call has ended that the caller still looks at.
Idle == call.op = ""

\* Stored without the test of inplace: the result is always installed.
Stored_always(inplace, data) == data

\* if inplace: self.df = data / else: return data
Stored(inplace, data) == IF inplace THEN data ELSE df
Returned(inplace, data) == IF inplace THEN NoRet ELSE data

\* Whether the model follows the table: its length, its sums and its dates
\* are bounded.
Bounded(t) ==
  /\ Len(t.rows) <= MaxRows
  /\ \A i \in 1..Len(t.rows) :
       t.rows[i].v <= MaxVal /\ t.rows[i].w <= MaxVal /\ t.rows[i].date <= MaxDay

\* The end of a transformation: an exception leaves the table alone.  A
\* table that is stored is one the model follows.
Finish(c, out) ==
  /\ (c.inplace /\ out.err = "") => Bounded(out.data)
  /\ df' = IF out.err = "" THEN Stored(c.inplace, out.data) ELSE df
  /\ ret' = IF out.err = "" THEN Returned(c.inplace, out.data) ELSE NoRet
  /\ call' = [c EXCEPT !.err = out.err]
  /\ UNCHANGED <<config, min_date, max_date>>

\* __init__ (lines 16-29).
Init ==
  \E t \in InitTables, tg \in Targets, lb \in Labels, wg \in BOOLEAN :
    /\ target = tg
    /\ label = lb
    /\ withGraph = wg
    /\ filter_columns = SelectSeq(RawColumns, LAMBDA c : c \notin ExcludeColumns)
    /\ df = Normalised(t, lb, wg)
    /\ min_date = ColMin(Normalised(t, lb, wg))
    /\ max_date = ColMax(Normalised(t, lb, wg))
    /\ call = Call("__init__")
    /\ ret = NoRet

\* The caller is done with the last call and drops what it returned.
Discard ==
  /\ ~Idle
  /\ call' = Call("")
  /\ ret' = NoRet
  /\ UNCHANGED <<df, config, min_date, max_date>>

\* reset_df(df) with a table of the caller's.
Reset ==
  /\ Idle
  /\ \E t \in RawTables :
    LET out == reset_df(t, label, withGraph)
    IN /\ df' = out.df
       /\ call' = [Call("reset_df") EXCEPT !.err = out.err]
       /\ ret' = NoRet
       /\ UNCHANGED <<config, min_date, max_date>>

\* reset_df(df) with the table the last call returned.
ResetReturned ==
  /\ ret # NoRet
  /\ Bounded(ret)
  /\ LET out == reset_df(ret, label, withGraph)
     IN /\ df' = out.df
        /\ call' = [Call("reset_df") EXCEPT !.err = out.err, !.chained = TRUE]
        /\ ret' = NoRet
        /\ UNCHANGED <<config, min_date, max_date>>

InsertEmptyRow ==
  /\ Idle
  /\ Len(df.rows) < MaxRows
  /\ Len(SelectSeq(df.rows, LAMBDA r : r = BlankRow)) < MaxBlank
  /\ \E pos \in -1..(Len(df.rows) + 1), dtype \in ConcatDtypes(df) :
       /\ df' = insert_empty_row_at_pos(df, pos, dtype)
       /\ call' = [Call("insert_empty_row_at_pos") EXCEPT !.pos = pos]
       /\ ret' = NoRet
       /\ UNCHANGED <<config, min_date, max_date>>

ChangeTarget ==
  /\ Idle
  /\ \E t \in Targets :
    /\ target' = t
    /\ call' = Call("change_target")
    /\ ret' = NoRet
    /\ UNCHANGED <<df, label, withGraph, filter_columns, min_date, max_date>>

FilterByColumns ==
  /\ Idle
  /\ \E i \in 1..Len(FilterInputs), inplace \in BOOLEAN :
    Finish([Call("filter_by_specified_columns") EXCEPT !.inplace = inplace, !.filters = i],
           filter_by_specified_columns(df, FilterInputs[i]))

FilterByDate ==
  /\ Idle
  /\ \E s \in FilterDates, e \in FilterDates, inplace \in BOOLEAN :
    /\ s <= e
    /\ Finish([Call("filter_by_date") EXCEPT !.inplace = inplace, !.start = s, !.end = e],
              filter_by_date(df, s, e))

Aggregate ==
  /\ Idle
  /\ \E inplace \in BOOLEAN :
    Finish([Call("aggregate") EXCEPT !.inplace = inplace], aggregate(df, target))

AggregateByTimespan ==
  /\ Idle
  /\ \E s \in SpanStarts, e \in SpanEnds, inplace \in BOOLEAN,
        nat_raises \in (IF DateValues(df) = {} THEN BOOLEAN ELSE {FALSE}) :
    Finish([Call("aggregate_by_timespan") EXCEPT !.inplace = inplace, !.start = s,
              !.end = e, !.gran = Granularity(e - s)],
           aggregate_by_timespan(df, target, s, e, nat_raises))

\* add_prediction (lines 137-150): without the series column the table is
\* returned as it is, whatever inplace says.
AddPrediction ==
  /\ Idle
  /\ \E lb \in NewLabels, n \in 0..MaxPred, values \in Predictions, inplace \in BOOLEAN :
    LET c == [Call("add_prediction") EXCEPT !.inplace = inplace, !.label = lb, !.n = n,
                                            !.values = values]
    IN IF ~withGraph
       THEN /\ ret' = df
            /\ call' = c
            /\ UNCHANGED <<df, config, min_date, max_date>>
       ELSE Finish(c, add_prediction(df, target, lb, n, values))

Next ==
  \/ Discard
  \/ Reset
  \/ ResetReturned
  \/ InsertEmptyRow
  \/ ChangeTarget
  \/ FilterByColumns
  \/ FilterByDate
  \/ Aggregate
  \/ AggregateByTimespan
  \/ AddPrediction

Spec == Init /\ [][Next]_vars

\* ------------------------------------------------------------ properties

Transformations ==
  {"filter_by_specified_columns", "filter_by_date", "aggregate", "aggregate_by_timespan",
   "add_prediction"}

\* The table the call that has just ended produced.
Out == IF call.inplace THEN df ELSE ret

Rows(t) == 1..Len(t.rows)
Dated(t) == {i \in Rows(t) : t.rows[i].date # NaN}
Dates(t) == {t.rows[i].date : i \in Rows(t)}
Least(S) == CHOOSE x \in S : \A y \in S : x <= y
Greatest(S) == CHOOSE x \in S : \A y \in S : x >= y

\* The sum of column col over the rows I of the table, a missing value
\* counting 0.
RECURSIVE Total(_, _, _)
Total(t, col, I) ==
  IF I = {} THEN 0
  ELSE LET i == CHOOSE x \in I : TRUE
       IN (IF t.rows[i][col] = NaN THEN 0 ELSE t.rows[i][col]) + Total(t, col, I \ {i})

Ascending(t) == \A i \in Rows(t) : i < Len(t.rows) => t.rows[i].date < t.rows[i + 1].date

\* The table a transformation returns for the arguments call c records.
Expected(c, t) ==
  CASE c.op = "filter_by_specified_columns" ->
         filter_by_specified_columns(t, FilterInputs[c.filters]).data
    [] c.op = "filter_by_date" -> filter_by_date(t, c.start, c.end).data
    [] c.op = "aggregate" -> aggregate(t, target).data
    [] c.op = "aggregate_by_timespan" ->
         aggregate_by_timespan(t, target, c.start, c.end, FALSE).data
    [] c.op = "add_prediction" ->
         IF withGraph THEN add_prediction(t, target, c.label, c.n, c.values).data ELSE t

\* C1 (as claimed): an in-place add_prediction (withGraph true) whose predict
\* function returns a number of values different from lastNRows fails and
\* leaves the owned table as it was.
C1_WrongLengthFails ==
  [][(call'.op = "add_prediction" /\ withGraph /\ call'.inplace
        /\ Len(call'.values) # call'.n)
       => (call'.err # "" /\ df' = df)]_vars

C3_OutOfRangeFails ==
  [][(call'.op = "insert_empty_row_at_pos" /\ (call'.pos < 0 \/ call'.pos > Len(df.rows)))
       => (call'.err # "" /\ df' = df)]_vars

\* The rows of the table before the call that fall in bucket b.
InBucket(gran, b) == {i \in Dated(df) : Bucket(gran, df.rows[i].date) = b}

\* C4 (as claimed): aggregate_by_timespan gives exactly one row to every
\* bucket that holds a row of the owned table and none to any other bucket,
\* each with the sum of target over the bucket's rows, in ascending order.
C4_EmptyBucketsOmitted ==
  [][(call'.op = "aggregate_by_timespan" /\ call'.err = "")
       => LET out == IF call'.inplace THEN df' ELSE ret'
              gran == call'.gran
          IN /\ Ascending(out)
             /\ Dates(out) = {Bucket(gran, df.rows[i].date) : i \in Dated(df)}
             /\ \A j \in Rows(out) :
                  out.rows[j][target] = Total(df, target, InBucket(gran, out.rows[j].date))]_vars

\* C4 (amended): aggregate_by_timespan gives exactly one row to every bucket
\* from the first to the last bucket that holds a row of the owned table,
\* each with the sum of target over the bucket's rows (0 for a bucket
\* without rows), in ascending order.
C4_OneRowPerBucketInRange ==
  [][(call'.op = "aggregate_by_timespan" /\ call'.err = "")
       => LET out == IF call'.inplace THEN df' ELSE ret'
              gran == call'.gran
              held == {Bucket(gran, df.rows[i].date) : i \in Dated(df)}
              range == IF held = {} THEN {}
                       ELSE {b \in Least(held)..Greatest(held) : Bucket(gran, b) = b}
          IN /\ Ascending(out)
             /\ Dates(out) = range
             /\ \A j \in Rows(out) :
                  out.rows[j][target] = Total(df, target, InBucket(gran, out.rows[j].date))]_vars

\* A returned resampling holds a row for a bucket in which the owned table
\* has no row.
C4_Witness ==
  /\ call.op = "aggregate_by_timespan"
  /\ call.err = ""
  /\ ~call.inplace
  /\ \E j \in Rows(ret) :
       /\ ret.rows[j][target] = 0
       /\ InBucket(call.gran, ret.rows[j].date) = {}
       /\ \E i \in Dated(df) : df.rows[i][target] > 0

\* The granularity for a span of the given number of days.
ForSpan(span) == IF span > 365 THEN "M" ELSE IF span > 90 THEN "W" ELSE "D"

\* The dates of table t are labels of buckets of the granularity.
Labelled(t, gran) == \A i \in Dated(t) : Bucket(gran, t.rows[i].date) = t.rows[i].date

\* C5 (as claimed): the granularity is chosen from the inclusive length of
\* the span, end - start + 1 days.
C5_InclusiveSpan ==
  (call.op = "aggregate_by_timespan" /\ call.err = "")
    => (call.gran = ForSpan(call.end - call.start + 1) /\ Labelled(Out, call.gran))

\* C5 (amended): the granularity is chosen from the difference of the two
\* dates, end - start days: monthly above 365, weekly above 90, else daily.
C5_DayDifference ==
  (call.op = "aggregate_by_timespan" /\ call.err = "")
    => (call.gran = ForSpan(call.end - call.start) /\ Labelled(Out, call.gran))

\* A call whose dates are 365 days apart has resampled by week.
C5_Witness ==
  /\ call.op = "aggregate_by_timespan"
  /\ call.err = ""
  /\ call.end - call.start = 365
  /\ call.gran = "W"
  /\ Len(Out.rows) >= 2

\* C6: a transformation called with inplace false returns its result and
\* leaves the owned table, the configuration and min_date/max_date as they
\* were; called with inplace true it makes the owned table the table the
\* same call returns with inplace false.
C6_DualContract ==
  [][(call'.op \in Transformations /\ call'.err = "")
       => IF call'.inplace
          THEN df' = Expected(call', df)
          ELSE /\ df' = df
               /\ UNCHANGED <<config, min_date, max_date>>
               /\ ret' = Expected(call', df)]_vars

\* aggregate has returned a table that differs from the owned one.
C6_Witness ==
  /\ call.op = "aggregate"
  /\ ~call.inplace
  /\ call.err = ""
  /\ ret.rows # <<>>
  /\ ret # df

\* C7: aggregate gives exactly one row to every date of the owned table, with
\* the sum of target over the rows of that date, in ascending order of date,
\* and (withGraph true) the target's name as the series value of every row.
C7_AggregateByDate ==
  [][(call'.op = "aggregate" /\ call'.err = "")
       => LET out == IF call'.inplace THEN df' ELSE ret'
          IN /\ Ascending(out)
             /\ Dates(out) = {df.rows[i].date : i \in Dated(df)}
             /\ \A j \in Rows(out) :
                  out.rows[j][target] =
                    Total(df, target, {i \in Dated(df) : df.rows[i].date = out.rows[j].date})
             /\ withGraph => \A j \in Rows(out) : out.rows[j].g = target]_vars

\* aggregate has returned two rows for three, two of which share a date and
\* sum to more than either.
C7_Witness ==
  /\ call.op = "aggregate"
  /\ ~call.inplace
  /\ call.err = ""
  /\ Len(df.rows) = 3
  /\ Len(ret.rows) = 2
  /\ \E i, j \in Rows(df), k \in Rows(ret) :
       /\ i # j
       /\ df.rows[i].date = df.rows[j].date
       /\ ret.rows[k].date = df.rows[i].date
       /\ df.rows[i][target] > 0
       /\ df.rows[j][target] > 0
       /\ ret.rows[k][target] = df.rows[i][target] + df.rows[j][target]

\* C8 (as claimed): right after construction and right after reset_df,
\* min_date and max_date are the least and the greatest date of the table
\* just installed.
C8_BoundsFollowTable ==
  (call.op \in {"__init__", "reset_df"} /\ call.err = "")
    => (min_date = ColMin(df) /\ max_date = ColMax(df))

\* C9 (as claimed): reset_df given a table a transformation returned, with
\* normalised dates, succeeds and installs the same rows with the same dates.
C9_ResetAcceptsReturned ==
  [][(call'.op = "reset_df" /\ call'.chained /\ ret.dtype = "datetime64")
       => /\ call'.err = ""
          /\ Len(df'.rows) = Len(ret.rows)
          /\ \A i \in Rows(ret) : df'.rows[i].date = ret.rows[i].date]_vars

\* The rows add_prediction chooses among, and the i-th of them from the end.
OfTargetSeries(t) == {i \in Rows(t) : t.rows[i].g = target}
FromEnd(I, k) == CHOOSE i \in I : Cardinality({x \in I : x > i}) = k

\* C10: add_prediction (withGraph true) with a predict function that returns
\* one value per row it is given produces the whole table, unchanged and in
\* order, followed by copies of the last min(lastNRows, count) rows of the
\* series named like the target, in their order, each with the new label as
\* series value and its predicted value as target.
C10_AppendsRelabelledTail ==
  [][(/\ call'.op = "add_prediction"
      /\ withGraph
      /\ call'.err = ""
      /\ Len(call'.values) = Min2(call'.n, Cardinality(OfTargetSeries(df))))
       => LET out == IF call'.inplace THEN df' ELSE ret'
              k == Min2(call'.n, Cardinality(OfTargetSeries(df)))
          IN /\ Len(out.rows) = Len(df.rows) + k
             /\ SubSeq(out.rows, 1, Len(df.rows)) = df.rows
             /\ \A j \in 1..k :
                  out.rows[Len(df.rows) + j] =
                    [df.rows[FromEnd(OfTargetSeries(df), k - j)]
                       EXCEPT ![target] = call'.values[j], !.g = call'.label]]_vars

\* add_prediction has returned two predicted rows for a table that holds two
\* rows of the target's series and a row of another.
C10_Witness ==
  /\ call.op = "add_prediction"
  /\ withGraph
  /\ ~call.inplace
  /\ call.err = ""
  /\ call.n = 2
  /\ Len(call.values) = 2
  /\ Len(ret.rows) = Len(df.rows) + 2
  /\ Cardinality(OfTargetSeries(df)) = 2
  /\ \E i \in Rows(df) : df.rows[i].g # target

====
